---------------------------- MODULE Spec2Model ----------------------------
(***************************************************************************)
(* The lexical scanner of src/src/scanner.rs as a state machine.           *)
(*                                                                         *)
(* A source text is a sequence of characters (what `source.chars()`        *)
(* yields).  A character is a one-character string; the three characters   *)
(* that UTF-8 encodes in more than one byte carry their code point as a    *)
(* name.  The text's bytes are derived from the characters (Bytes), and a  *)
(* substring taken by offset (`&self.source[a..b]`) is computed on the     *)
(* bytes, as Rust computes it, and fails off a character boundary.         *)
(*                                                                         *)
(* One action models one iteration of the loop of scan_tokens (one call of *)
(* scan_token with everything it calls), one action per arm of its match;  *)
(* Finish models the code after the loop.  A panic ends the run: the       *)
(* program has no catch_unwind, so the process aborts with the message.    *)
(***************************************************************************)
EXTENDS Integers, Sequences, FiniteSets, TLC

\* Longest source text of the exhaustive part of the input space.
MaxLen == 3

---------------------------------------------------------------------------
\* Characters

EAcute == "U+00E9"     \* e with acute: alphabetic, 2 bytes in UTF-8
Euro == "U+20AC"       \* euro sign: a symbol, 3 bytes in UTF-8
SuperTwo == "U+00B2"   \* superscript two: numeric (category No), 2 bytes

AsciiDigits == {"0", "1", "2", "3", "4", "5", "6", "7", "8", "9"}

AsciiLower == {"a", "b", "c", "d", "e", "f", "g", "h", "i", "j", "k", "l", "m",
               "n", "o", "p", "q", "r", "s", "t", "u", "v", "w", "x", "y", "z"}

AsciiUpper == {"A", "B", "C", "D", "E", "F", "G", "H", "I", "J", "K", "L", "M",
               "N", "O", "P", "Q", "R", "S", "T", "U", "V", "W", "X", "Y", "Z"}

\* char::len_utf8
len_utf8(c) == IF c = Euro THEN 3 ELSE IF c \in {EAcute, SuperTwo} THEN 2 ELSE 1

\* char::is_numeric: the Unicode categories Nd, Nl and No
is_numeric(c) == c \in AsciiDigits \cup {SuperTwo}

\* char::is_alphabetic: the Unicode property Alphabetic ('_' does not have it)
is_alphabetic(c) == c \in AsciiLower \cup AsciiUpper \cup {EAcute}

\* char::is_alphanumeric
is_alphanumeric(c) == is_alphabetic(c) \/ is_numeric(c)

\* Option::None, as peek and advance return it
None == "None"

---------------------------------------------------------------------------
\* Strings as bytes, and substrings by byte offset

\* The UTF-8 encoding of a text: one entry per byte, <<c, k>> the k-th byte of c.
RECURSIVE Bytes(_)
Bytes(text) ==
    IF text = <<>> THEN <<>>
    ELSE [k \in 1..len_utf8(Head(text)) |-> <<Head(text), k>>] \o Bytes(Tail(text))

\* str::is_char_boundary
is_char_boundary(text, i) ==
    LET b == Bytes(text) IN
    \/ i = 0
    \/ i = Len(b)
    \/ i < Len(b) /\ b[i + 1][2] = 1

\* The characters whose first byte lies in a byte sequence.
RECURSIVE Decode(_)
Decode(b) ==
    IF b = <<>> THEN <<>>
    ELSE (IF Head(b)[2] = 1 THEN <<Head(b)[1]>> ELSE <<>>) \o Decode(Tail(b))

\* &text[a..b]: ok is FALSE where Rust panics (a > b, b past the end, or an
\* offset inside a character).
Slice(text, a, b) ==
    IF a <= b /\ b <= Len(Bytes(text))
       /\ is_char_boundary(text, a) /\ is_char_boundary(text, b)
    THEN [ok |-> TRUE, text |-> Decode(SubSeq(Bytes(text), a + 1, b))]
    ELSE [ok |-> FALSE, text |-> <<>>]

---------------------------------------------------------------------------
\* Literals and the numeric parse

Empty == [kind |-> "Empty"]
StringLit(value) == [kind |-> "String", value |-> value]
\* An f64 read from a decimal numeral: num / 10^scale, num with no factor 10
\* when scale > 0.
FloatLit(num, scale) == [kind |-> "Float", num |-> num, scale |-> scale]
NaNLit == [kind |-> "FloatNaN"]
InfLit(neg) == [kind |-> "FloatInf", neg |-> neg]

DigitVal(c) == CHOOSE v \in 0..9 :
    <<"0", "1", "2", "3", "4", "5", "6", "7", "8", "9">>[v + 1] = c

AllDigits(t) == \A i \in 1..Len(t) : t[i] \in AsciiDigits

\* The value of a run of decimal digits (0 for the empty run).
RECURSIVE DecValue(_)
DecValue(t) ==
    IF t = <<>> THEN 0
    ELSE 10 * DecValue(SubSeq(t, 1, Len(t) - 1)) + DigitVal(t[Len(t)])

RECURSIVE Pow10(_)
Pow10(n) == IF n <= 0 THEN 1 ELSE 10 * Pow10(n - 1)

RECURSIVE Normalize(_, _)
Normalize(num, scale) ==
    IF scale < 0 THEN FloatLit(num * Pow10(0 - scale), 0)
    ELSE IF scale > 0 /\ num % 10 = 0 THEN Normalize(num \div 10, scale - 1)
    ELSE FloatLit(num, scale)

\* ASCII lower case of a text, for the case-insensitive words of the grammar.
LowerText(t) ==
    [i \in 1..Len(t) |->
        CASE t[i] = "I" -> "i" [] t[i] = "N" -> "n" [] t[i] = "F" -> "f"
          [] t[i] = "T" -> "t" [] t[i] = "Y" -> "y" [] t[i] = "A" -> "a"
          [] t[i] = "E" -> "e" [] OTHER -> t[i]]

\* t cut at the first character of `seps` in it: what is before it, what is
\* after it, and whether t holds one at all.
SplitAt(t, seps) ==
    LET at == {i \in 1..Len(t) : t[i] \in seps}
        i == CHOOSE j \in at : \A k \in at : j <= k
    IN  IF at = {} THEN [found |-> FALSE, before |-> t, after |-> <<>>]
        ELSE [found |-> TRUE, before |-> SubSeq(t, 1, i - 1),
              after |-> SubSeq(t, i + 1, Len(t))]

\* <f64 as FromStr>::from_str, whose grammar is
\*   Float  ::= Sign? ( 'inf' | 'infinity' | 'nan' | Number )
\*   Number ::= ( Digit+ | Digit+ '.' Digit* | Digit* '.' Digit+ ) Exp?
\*   Exp    ::= 'e' Sign? Digit+
\* with the words and 'e' in either case.  The value is kept exact (it is not
\* rounded to 53 bits: the digit runs of the model are far shorter).
ParseF64(t) ==
    LET signed == t # <<>> /\ t[1] \in {"+", "-"}
        body == LowerText(IF signed THEN Tail(t) ELSE t)
        neg == signed /\ t[1] = "-"
        me == SplitAt(body, {"e"})
        mant == SplitAt(me.before, {"."})
        ip == mant.before
        fp == mant.after
        hasExp == me.found
        ex == me.after
        exSigned == ex # <<>> /\ ex[1] \in {"+", "-"}
        exDigits == IF exSigned THEN Tail(ex) ELSE ex
        exVal == IF exSigned /\ ex[1] = "-" THEN 0 - DecValue(exDigits)
                 ELSE DecValue(exDigits)
        mag == DecValue(ip \o fp)
    IN  IF body = <<"n", "a", "n">> THEN [ok |-> TRUE, value |-> NaNLit]
        ELSE IF body \in {<<"i", "n", "f">>,
                          <<"i", "n", "f", "i", "n", "i", "t", "y">>}
        THEN [ok |-> TRUE, value |-> InfLit(neg)]
        ELSE IF /\ AllDigits(ip) /\ AllDigits(fp) /\ Len(ip) + Len(fp) > 0
                /\ hasExp => (AllDigits(exDigits) /\ exDigits # <<>>)
        THEN [ok |-> TRUE,
              value |-> Normalize(IF neg THEN 0 - mag ELSE mag,
                                  Len(fp) - (IF hasExp THEN exVal ELSE 0))]
        ELSE [ok |-> FALSE, value |-> Empty]

---------------------------------------------------------------------------
\* Token kinds

KEYWORDS ==
    [w \in {<<"a", "n", "d">>, <<"c", "l", "a", "s", "s">>, <<"e", "l", "s", "e">>,
            <<"f", "a", "l", "s", "e">>, <<"f", "o", "r">>, <<"f", "u", "n">>,
            <<"i", "f">>, <<"n", "i", "l">>, <<"o", "r">>,
            <<"p", "r", "i", "n", "t">>, <<"r", "e", "t", "u", "r", "n">>,
            <<"s", "u", "p", "e", "r">>, <<"t", "h", "i", "s">>,
            <<"t", "r", "u", "e">>, <<"v", "a", "r">>,
            <<"w", "h", "i", "l", "e">>} |->
        CASE w = <<"a", "n", "d">> -> "And"
          [] w = <<"c", "l", "a", "s", "s">> -> "Class"
          [] w = <<"e", "l", "s", "e">> -> "Else"
          [] w = <<"f", "a", "l", "s", "e">> -> "False"
          [] w = <<"f", "o", "r">> -> "For"
          [] w = <<"f", "u", "n">> -> "Fun"
          [] w = <<"i", "f">> -> "If"
          [] w = <<"n", "i", "l">> -> "Nil"
          [] w = <<"o", "r">> -> "Or"
          [] w = <<"p", "r", "i", "n", "t">> -> "Print"
          [] w = <<"r", "e", "t", "u", "r", "n">> -> "Return"
          [] w = <<"s", "u", "p", "e", "r">> -> "Super"
          [] w = <<"t", "h", "i", "s">> -> "This"
          [] w = <<"t", "r", "u", "e">> -> "True"
          [] w = <<"v", "a", "r">> -> "Var"
          [] w = <<"w", "h", "i", "l", "e">> -> "While"]

KeywordTypes == {KEYWORDS[w] : w \in DOMAIN KEYWORDS}

SingleChars == {"(", ")", "{", "}", ",", ".", "-", "+", ";", "*"}

\* The arms '(' .. '*' of scan_token's match
SingleType(c) ==
    CASE c = "(" -> "LeftParen"
      [] c = ")" -> "RightParen"
      [] c = "{" -> "LeftBrace"
      [] c = "}" -> "RightBrace"
      [] c = "," -> "Comma"
      [] c = "." -> "Dot"
      [] c = "-" -> "Minus"
      [] c = "+" -> "Plus"
      [] c = ";" -> "Semicolon"
      [] c = "*" -> "Star"

OperatorChars == {"!", "=", "<", ">"}

\* The arms '!' '=' '<' '>' of scan_token's match
OperatorType(c, is_match) ==
    CASE c = "!" -> IF is_match THEN "BangEqual" ELSE "Bang"
      [] c = "=" -> IF is_match THEN "EqualEqual" ELSE "Equal"
      [] c = "<" -> IF is_match THEN "LessEqual" ELSE "Less"
      [] c = ">" -> IF is_match THEN "GreaterEqual" ELSE "Greater"

TokenType ==
    {SingleType(c) : c \in SingleChars}
    \cup {OperatorType(c, m) : c \in OperatorChars, m \in BOOLEAN}
    \cup {"Slash", "Identifier", "String", "Number", "Eof"} \cup KeywordTypes

Whitespace == {" ", "\r", "\t"}

---------------------------------------------------------------------------
\* The scanner

VARIABLES
    source,     \* Scanner.source: the text, as its characters
    tokens,     \* Scanner.tokens
    start,      \* Scanner.start
    current,    \* Scanner.current
    line,       \* Scanner.line
    chars,      \* Scanner.chars: what the Peekable<Chars> has yet to yield
    status,     \* "scanning", "returned" (scan_tokens returned tokens) or "panicked"
    panic,      \* the panic that ended the run, None while there is none
    began,      \* history: how many characters of the source were consumed
                \* when the latest iteration of the loop began
    extent      \* history: for each token, how many characters were consumed
                \* before its iteration and after it

vars == <<source, tokens, start, current, line, chars, status, panic, began, extent>>

\* The panics of scanner.rs
UnwrapNone == "called Option::unwrap() on a None value"
UnterminatedString == "Unterminated string"
NotYetImplemented == "not yet implemented: Numbers with decimals"
NotCharBoundary == "byte index is not a char boundary"
ParseFloatError == "called Result::unwrap() on an Err value: ParseFloatError"

Panics == {UnwrapNone, UnterminatedString, NotYetImplemented, NotCharBoundary,
           ParseFloatError}

\* Scanner::new
new(src) ==
    [source |-> src, tokens |-> <<>>, start |-> 0, current |-> 0, line |-> 1,
     chars |-> src, panic |-> None]

\* The scanner of the current state
self ==
    [source |-> source, tokens |-> tokens, start |-> start, current |-> current,
     line |-> line, chars |-> chars, panic |-> panic]

\* panic!, todo! and a failed unwrap or slice: the scanner as it was left
Panic(s, msg) == [s EXCEPT !.panic = msg]

Token(type, text, literal, ln) ==
    [type |-> type, source |-> text, literal |-> literal, line |-> ln]

\* Scanner::peek
peek(s) == IF s.chars = <<>> THEN None ELSE Head(s.chars)

\* Scanner::is_at_end
is_at_end(s) == peek(s) = None

\* Scanner::advance: the scanner after the call (the character it returns is
\* peek of the scanner before; at the end of the input nothing changes)
advance(s) ==
    IF s.chars = <<>> THEN s
    ELSE [s EXCEPT !.chars = Tail(@), !.current = @ + 1]

\* match taking the next character whether or not it is the expected one
match_any(s, expected) ==
    IF is_at_end(s) THEN [is_match |-> FALSE, s |-> s]
    ELSE [is_match |-> peek(s) = expected, s |-> advance(s)]

\* Scanner::match: what it returns and the scanner after
match(s, expected) ==
    IF is_at_end(s) THEN [is_match |-> FALSE, s |-> s]
    ELSE IF peek(s) # expected THEN [is_match |-> FALSE, s |-> s]
    ELSE [is_match |-> TRUE, s |-> advance(s)]

\* add_token pushing at the front of tokens
add_token_front(s, token_type, literal) ==
    LET text == Slice(s.source, s.start, s.current) IN
    IF ~text.ok THEN Panic(s, NotCharBoundary)
    ELSE [s EXCEPT !.tokens = <<Token(token_type, text.text, literal, s.line)>> \o @]

\* Scanner::add_token
add_token(s, token_type, literal) ==
    LET text == Slice(s.source, s.start, s.current) IN
    IF ~text.ok THEN Panic(s, NotCharBoundary)
    ELSE [s EXCEPT !.tokens = Append(@, Token(token_type, text.text, literal, s.line))]

\* The loop of the '/' arm of scan_token: the rest of the line
RECURSIVE comment_loop(_)
comment_loop(s) ==
    IF peek(s) = None \/ peek(s) = "\n" THEN s
    ELSE comment_loop(advance(s))

\* The loop of handle_string without its count of the newlines
RECURSIVE string_loop_uncounted(_)
string_loop_uncounted(s) ==
    IF peek(s) = None \/ peek(s) = "\"" THEN s
    ELSE string_loop_uncounted(advance(s))

\* The loop of handle_string: up to the next '"' or the end of the input
RECURSIVE string_loop(_)
string_loop(s) ==
    IF peek(s) = None \/ peek(s) = "\"" THEN s
    ELSE string_loop(advance(IF peek(s) = "\n" THEN [s EXCEPT !.line = @ + 1] ELSE s))

\* Scanner::handle_string
handle_string(s) ==
    LET body == string_loop(s) IN
    IF is_at_end(body) THEN Panic(body, UnterminatedString)
    ELSE LET closed == advance(body)
             slice_start == closed.start + 1
             slice_end == closed.current - 1
             value == Slice(closed.source, slice_start, slice_end)
         IN  IF ~value.ok THEN Panic(closed, NotCharBoundary)
             ELSE add_token(closed, "String", StringLit(value.text))

\* The loop of handle_number
RECURSIVE number_loop(_)
number_loop(s) ==
    IF peek(s) = None \/ ~is_numeric(peek(s)) THEN s
    ELSE number_loop(advance(s))

\* handle_number without its check for a '.' after the digits
handle_number_unchecked(s) ==
    LET run == number_loop(s)
        str_literal == Slice(run.source, run.start, run.current)
        parsed == ParseF64(str_literal.text)
    IN  IF ~str_literal.ok THEN Panic(run, NotCharBoundary)
        ELSE IF ~parsed.ok THEN Panic(run, ParseFloatError)
        ELSE add_token(run, "Number", parsed.value)

\* Scanner::handle_number
handle_number(s) ==
    LET run == number_loop(s)
        str_literal == Slice(run.source, run.start, run.current)
        parsed == ParseF64(str_literal.text)
    IN  IF peek(run) = "." THEN Panic(run, NotYetImplemented)
        ELSE IF ~str_literal.ok THEN Panic(run, NotCharBoundary)
        ELSE IF ~parsed.ok THEN Panic(run, ParseFloatError)
        ELSE add_token(run, "Number", parsed.value)

\* The loop of handle_identifier
RECURSIVE identifier_loop(_)
identifier_loop(s) ==
    IF peek(s) = None \/ ~is_alphanumeric(peek(s)) THEN s
    ELSE identifier_loop(advance(s))

\* Scanner::handle_identifier
handle_identifier(s) ==
    LET run == identifier_loop(s)
        text == Slice(run.source, run.start, run.current)
    IN  IF ~text.ok THEN Panic(run, NotCharBoundary)
        ELSE IF text.text \in DOMAIN KEYWORDS
        THEN add_token(run, KEYWORDS[text.text], Empty)
        ELSE add_token(run, "Identifier", Empty)

\* Scanner::scan_token
scan_token(s) ==
    IF is_at_end(s) THEN Panic(s, UnwrapNone)
    ELSE
    LET c == peek(s)
        a == advance(s)
    IN  CASE c \in SingleChars -> add_token(a, SingleType(c), Empty)
          [] c \in OperatorChars ->
                LET m == match(a, "=") IN
                add_token(m.s, OperatorType(c, m.is_match), Empty)
          [] c = "/" ->
                LET m == match(a, "/") IN
                IF m.is_match THEN comment_loop(m.s)
                ELSE add_token(m.s, "Slash", Empty)
          [] c \in Whitespace -> a
          [] c = "\n" -> [a EXCEPT !.line = @ + 1]
          [] c = "\"" -> handle_string(a)
          [] OTHER ->
                IF is_numeric(c) THEN handle_number(a)
                ELSE IF is_alphabetic(c) THEN handle_identifier(a)
                ELSE a

\* The loop body with a space left unconsumed
loop_body_idle(s) ==
    IF peek(s) = " " THEN [s EXCEPT !.start = s.current]
    ELSE scan_token([s EXCEPT !.start = s.current])

\* The body of the loop of scan_tokens
loop_body(s) == scan_token([s EXCEPT !.start = s.current])

\* The code of scan_tokens after its loop
push_eof(s) == [s EXCEPT !.tokens = Append(@, Token("Eof", <<>>, Empty, s.line))]

\* Scanner::scan_tokens, run to its end from s: the scanner as it returns
\* (tokens is what is returned) or as the panic leaves it
RECURSIVE scan_tokens(_)
scan_tokens(s) ==
    IF s.panic # None THEN s
    ELSE IF is_at_end(s) THEN push_eof(s)
    ELSE scan_tokens(loop_body(s))

---------------------------------------------------------------------------
\* The input space: every text of at most MaxLen characters of Alphabet, and
\* the inputs spec.md names.

Alphabet ==
    {"(", ".", "!", "=", "/", " ", "\n", "\"", "1", "a", "n", "d", "_",
     EAcute, Euro, SuperTwo}

ShortSources == UNION {[1..n -> Alphabet] : n \in 0..MaxLen}

Examples ==
    {<<"x", "1", " ", "a", "n", "d", "_", "2">>,
     <<"\"", "h", "e", "l", "l", "o", "\"">>,
     <<"\"", "u", "n", "t", "e", "r", "m", "i", "n", "a", "t", "e", "d">>,
     <<"1", "2", "3">>,
     <<"f", "o", "o">>,
     <<"a", "n", "d">>,
     <<"/", "/", "c", "o", "m", "m", "e", "n", "t", "\n">>,
     <<"(", ")", "{", "}", ";", ",", ".", "-", "+", "*">>,
     <<"!", "=">>, <<"!">>, <<"=", "=">>, <<"=">>,
     <<"<", "=">>, <<"<">>, <<">", "=">>, <<">">>,
     <<"=", "=", "=">>, <<"<", "=", "=">>, <<">", "!", "=">>,
     <<"a", "n", "d", "y">>, <<"A", "n", "d">>, <<"o", "r">>, <<"o", "r", "1">>,
     <<"w", "h", "i", "l", "e", " ", "v", "a", "r">>}

Sources == ShortSources \cup Examples

---------------------------------------------------------------------------
\* The state machine

Init ==
    /\ source \in Sources
    /\ tokens = new(source).tokens
    /\ start = new(source).start
    /\ current = new(source).current
    /\ line = new(source).line
    /\ chars = new(source).chars
    /\ panic = new(source).panic
    /\ status = "scanning"
    /\ began = 0
    /\ extent = <<>>

\* How many characters the iterator of s has yielded
Consumed(s) == Len(s.source) - Len(s.chars)

\* The scanner becomes s: by a return of scan_token, or by the panic s holds.
Becomes(s) ==
    /\ tokens' = s.tokens
    /\ start' = s.start
    /\ current' = s.current
    /\ line' = s.line
    /\ chars' = s.chars
    /\ panic' = s.panic
    /\ status' = IF s.panic = None THEN "scanning" ELSE "panicked"
    /\ began' = Consumed(self)
    /\ extent' = IF Len(s.tokens) > Len(tokens)
                 THEN Append(extent, <<Consumed(self), Consumed(s)>>) ELSE extent
    /\ UNCHANGED source

\* The loop without its test for the end of the input
ScanningAlways == status = "scanning"

\* An iteration of the loop of scan_tokens begins: input remains.
Scanning == status = "scanning" /\ ~is_at_end(self)

\* One action per arm of scan_token's match, by the decision character.
ScanSingle == Scanning /\ peek(self) \in SingleChars /\ Becomes(loop_body(self))

ScanOperator == Scanning /\ peek(self) \in OperatorChars /\ Becomes(loop_body(self))

ScanSlash == Scanning /\ peek(self) = "/" /\ Becomes(loop_body(self))

ScanWhitespace == Scanning /\ peek(self) \in Whitespace /\ Becomes(loop_body(self))

ScanNewline == Scanning /\ peek(self) = "\n" /\ Becomes(loop_body(self))

ScanString == Scanning /\ peek(self) = "\"" /\ Becomes(loop_body(self))

IsOther(c) ==
    c \notin SingleChars \cup OperatorChars \cup Whitespace \cup {"/", "\n", "\""}

ScanNumber ==
    Scanning /\ IsOther(peek(self)) /\ is_numeric(peek(self))
    /\ Becomes(loop_body(self))

ScanIdentifier ==
    Scanning /\ IsOther(peek(self)) /\ ~is_numeric(peek(self))
    /\ is_alphabetic(peek(self)) /\ Becomes(loop_body(self))

ScanUnexpected ==
    Scanning /\ IsOther(peek(self)) /\ ~is_numeric(peek(self))
    /\ ~is_alphabetic(peek(self)) /\ Becomes(loop_body(self))

\* The loop of scan_tokens ends: the Eof token is pushed and tokens returned.
Finish ==
    /\ status = "scanning"
    /\ is_at_end(self)
    /\ tokens' = push_eof(self).tokens
    /\ extent' = Append(extent, <<Consumed(self), Consumed(self)>>)
    /\ status' = "returned"
    /\ UNCHANGED <<source, start, current, line, chars, panic, began>>

Next ==
    \/ ScanSingle
    \/ ScanOperator
    \/ ScanSlash
    \/ ScanWhitespace
    \/ ScanNewline
    \/ ScanString
    \/ ScanNumber
    \/ ScanIdentifier
    \/ ScanUnexpected
    \/ Finish

Spec == Init /\ [][Next]_vars

TypeOK ==
    /\ status \in {"scanning", "returned", "panicked"}
    /\ panic \in Panics \cup {None}
    /\ (status = "panicked") = (panic # None)
    /\ \A i \in 1..Len(tokens) : tokens[i].type \in TokenType
    /\ Len(extent) = Len(tokens)
    /\ began <= Consumed(self)

---------------------------------------------------------------------------
\* What the properties speak of

Ended == status # "scanning"

\* The latest action was an iteration of the loop (not Finish on an empty
\* source), and the character it dispatched on.
Iterated == Consumed(self) > began
Decision == IF Iterated THEN source[began + 1] ELSE None

\* The tokens the latest iteration pushed
PushedByLatest ==
    {i \in 1..Len(tokens) : Iterated /\ extent[i][1] = began /\ tokens[i].type # "Eof"}

NewlinesIn(t) == Cardinality({i \in 1..Len(t) : t[i] = "\n"})

\* The 1-based line of the character that follows the first k of the source
LineAt(k) == 1 + NewlinesIn(SubSeq(source, 1, k))

\* The places after k (k characters consumed) where the source holds c
PlacesAfter(k, c) == {i \in (k + 1)..Len(source) : source[i] = c}

IsAscii(t) == \A i \in 1..Len(t) : len_utf8(t[i]) = 1

---------------------------------------------------------------------------
\* The token sequence is not empty, its last element is the Eof token (empty
\* lexeme, no literal, the line counter as its line) and no other one is.
EofLast ==
    /\ tokens # <<>>
    /\ tokens[Len(tokens)] = Token("Eof", <<>>, Empty, line)
    /\ \A i \in 1..(Len(tokens) - 1) : tokens[i].type # "Eof"

\* C1: for every source, scan_tokens returns a non-empty token sequence whose
\* last element is the Eof token (empty lexeme, no literal, the line counter
\* as its line), and no earlier token is an Eof token.
C1_ReturnsEofLast == Ended => (status = "returned" /\ EofLast)

\* What the code does keep of C1: a run that returns, returns such a sequence.
C1_EofLastWhenReturned == status = "returned" => EofLast

\* The latest iteration dispatched on a '"' that no '"' follows.
UnclosedStringOpened ==
    Iterated /\ Decision = "\"" /\ PlacesAfter(began + 1, "\"") = {}

\* C2: a string opened and never closed stops the scan with the unterminated-
\* string error, the line of that error is the line of the opening quote, and
\* no String token is pushed for it.  (The panic holds a message and no line:
\* the line there is to report is the scanner's line counter.)
C2_UnterminatedLine ==
    UnclosedStringOpened =>
        /\ status = "panicked"
        /\ panic = UnterminatedString
        /\ line = LineAt(began)
        /\ \A i \in PushedByLatest : tokens[i].type # "String"

\* C2 without the line: the scan does stop there, with no String token.
C2_UnterminatedStops ==
    UnclosedStringOpened =>
        /\ status = "panicked"
        /\ panic = UnterminatedString
        /\ PushedByLatest = {}

\* C3: no source makes the scanner panic.
C3_NeverPanics == status # "panicked"

\* C4: every token's line is 1 plus the number of newlines of the source that
\* precede the token's first character.
C4_TokenLine ==
    \A i \in 1..Len(tokens) : tokens[i].line = LineAt(extent[i][1])

\* C4 for the tokens that hold no newline: only a String token can.
C4_TokenLineButStrings ==
    \A i \in 1..Len(tokens) :
        tokens[i].type # "String" => tokens[i].line = LineAt(extent[i][1])

\* A character of the last arm of scan_token, neither numeric nor alphabetic
IsUnrecognized(c) == c # None /\ IsOther(c) /\ ~is_numeric(c) /\ ~is_alphabetic(c)

WithSpaceAt(t, k) == [i \in 1..Len(t) |-> IF i = k THEN " " ELSE t[i]]

SkippedLikeSpace ==
    /\ status = "scanning"
    /\ PushedByLatest = {}
    /\ Consumed(self) = began + 1
    /\ LET rest == scan_tokens(self)
           spaced == scan_tokens(new(WithSpaceAt(source, began + 1)))
       IN  rest.panic = spaced.panic /\ rest.tokens = spaced.tokens

AfterUnrecognized == status # "returned" /\ IsUnrecognized(Decision)

\* C5: an unrecognized character is skipped without a token and without
\* stopping the scan, and the scan goes on as if it had been a space: the
\* whole run ends as the run on the source with a space in its place ends.
C5_SkippedLikeSpace == AfterUnrecognized => SkippedLikeSpace

\* C5 for the sources of one-byte characters only.
C5_AsciiSkippedLikeSpace == (AfterUnrecognized /\ IsAscii(source)) => SkippedLikeSpace

X1And2 == <<"x", "1", " ", "a", "n", "d", "_", "2">>

\* C6: the source x1 and_2 scans as the identifiers x1 and and_2, then Eof.
C6_TwoIdentifiers ==
    (source = X1And2 /\ Ended) =>
        /\ status = "returned"
        /\ [i \in 1..Len(tokens) |-> <<tokens[i].type, tokens[i].source>>]
             = << <<"Identifier", <<"x", "1">>>>,
                  <<"Identifier", <<"a", "n", "d", "_", "2">>>>,
                  <<"Eof", <<>>>> >>

\* A text from its first '"' on: through the closing '"', or all of it.
StringPart(t) ==
    LET close == {i \in 2..Len(t) : t[i] = "\""} IN
    IF close = {} THEN t
    ELSE SubSeq(t, 1, CHOOSE i \in close : \A j \in close : i <= j)

\* A text from a "//" on: up to the newline, or all of it.
CommentPart(t) ==
    LET nl == {i \in 1..Len(t) : t[i] = "\n"} IN
    IF nl = {} THEN t
    ELSE SubSeq(t, 1, (CHOOSE i \in nl : \A j \in nl : i <= j) - 1)

\* The characters of t outside whitespace, newlines and comments; with
\* `strings`, the string literals too.
RECURSIVE Significant(_, _)
Significant(t, strings) ==
    IF t = <<>> THEN <<>>
    ELSE IF Head(t) \in Whitespace \cup {"\n"} THEN Significant(Tail(t), strings)
    ELSE IF Head(t) = "/" /\ Len(t) >= 2 /\ t[2] = "/"
    THEN Significant(SubSeq(t, Len(CommentPart(t)) + 1, Len(t)), strings)
    ELSE IF Head(t) = "\""
    THEN (IF strings THEN StringPart(t) ELSE <<>>)
         \o Significant(SubSeq(t, Len(StringPart(t)) + 1, Len(t)), strings)
    ELSE <<Head(t)>> \o Significant(Tail(t), strings)

\* No unrecognized character outside the strings and comments of t.
NoUnrecognized(t) ==
    \A i \in 1..Len(Significant(t, FALSE)) : ~IsUnrecognized(Significant(t, FALSE)[i])

RECURSIVE Concat(_)
Concat(ts) == IF ts = <<>> THEN <<>> ELSE Head(ts).source \o Concat(Tail(ts))

LexemesAreSource ==
    /\ \A i \in 1..Len(tokens) :
          tokens[i].source = SubSeq(source, extent[i][1] + 1, extent[i][2])
    /\ Concat(tokens) = Significant(source, TRUE)

\* C7: in a run without lexical error each token's lexeme is the part of the
\* source it was scanned from, and the lexemes in order make up the source
\* without its whitespace, newlines and comments.
C7_LexemesAreSource ==
    (status = "returned" /\ NoUnrecognized(source)) => LexemesAreSource

\* C7 for the sources of one-byte characters only.
C7_AsciiLexemesAreSource ==
    (status = "returned" /\ NoUnrecognized(source) /\ IsAscii(source))
        => LexemesAreSource

\* Where the run of decimal digits that holds the k-th character ends
RECURSIVE DigitRunEnd(_)
DigitRunEnd(k) ==
    IF k < Len(source) /\ source[k + 1] \in AsciiDigits THEN DigitRunEnd(k + 1)
    ELSE k

DotFollows(k) == k < Len(source) /\ source[k + 1] = "."

DigitRunBeforeDot ==
    Iterated /\ Decision \in AsciiDigits /\ DotFollows(DigitRunEnd(began + 1))

\* C8: a digit run followed by '.' is rejected: no Number token is ever pushed
\* whose characters are followed by '.' in the source, and the iteration that
\* meets such a run ends the scan, with no token, in the panic of todo!.
C8_NoNumberBeforeDot ==
    /\ \A i \in 1..Len(tokens) :
          tokens[i].type = "Number" => ~DotFollows(extent[i][2])
    /\ DigitRunBeforeDot =>
          (status = "panicked" /\ panic = NotYetImplemented /\ PushedByLatest = {})

\* A digit run before a '.' was met, after a token had been pushed.
C8_Witness == DigitRunBeforeDot /\ panic = NotYetImplemented /\ Len(tokens) > 0

\* The latest iteration dispatched on a '"' that a '"' follows.
ClosedStringOpened ==
    Iterated /\ Decision = "\"" /\ PlacesAfter(began + 1, "\"") # {}

ClosingQuote ==
    CHOOSE q \in PlacesAfter(began + 1, "\"") :
        \A r \in PlacesAfter(began + 1, "\"") : q <= r

OneStringToken ==
    /\ status # "panicked"
    /\ Cardinality(PushedByLatest) = 1
    /\ \A i \in PushedByLatest :
          /\ extent[i] = <<began, ClosingQuote>>
          /\ tokens[i].type = "String"
          /\ tokens[i].source = SubSeq(source, began + 1, ClosingQuote)
          /\ tokens[i].literal = StringLit(SubSeq(source, began + 2, ClosingQuote - 1))

\* C9: a '"' with a '"' after it yields exactly one String token: the scan
\* consumes through the first following '"', the lexeme is the text with both
\* quotes and the literal the text between them.
C9_OneStringToken == ClosedStringOpened => OneStringToken

\* C9 for the sources of one-byte characters only.
C9_AsciiOneStringToken == (ClosedStringOpened /\ IsAscii(source)) => OneStringToken

\* The latest iteration dispatched on a decimal digit whose run no '.' follows.
DigitRunScanned ==
    Iterated /\ Decision \in AsciiDigits /\ ~DotFollows(DigitRunEnd(began + 1))

OneNumberToken ==
    /\ status # "panicked"
    /\ Cardinality(PushedByLatest) = 1
    /\ \A i \in PushedByLatest :
          /\ extent[i] = <<began, DigitRunEnd(began + 1)>>
          /\ tokens[i].type = "Number"
          /\ tokens[i].source = SubSeq(source, began + 1, DigitRunEnd(began + 1))
          /\ tokens[i].literal =
                FloatLit(DecValue(SubSeq(source, began + 1, DigitRunEnd(began + 1))), 0)

\* C10: a decimal digit that starts a token, its run not followed by '.',
\* yields exactly one Number token: the lexeme is the maximal run of digits,
\* the literal its value, and the scan stops right after the run.
C10_OneNumberToken == DigitRunScanned => OneNumberToken

\* C10 for the sources of one-byte characters only.
C10_AsciiOneNumberToken == (DigitRunScanned /\ IsAscii(source)) => OneNumberToken

\* The latest iteration dispatched on '!', '=', '<' or '>'.
OperatorScanned == Iterated /\ Decision \in OperatorChars

EqualFollows == began + 2 <= Len(source) /\ source[began + 2] = "="

OneCharOperator(c) ==
    CASE c = "!" -> "Bang" [] c = "=" -> "Equal"
      [] c = "<" -> "Less" [] c = ">" -> "Greater"

TwoCharOperator(c) ==
    CASE c = "!" -> "BangEqual" [] c = "=" -> "EqualEqual"
      [] c = "<" -> "LessEqual" [] c = ">" -> "GreaterEqual"

OneOperatorToken ==
    /\ status # "panicked"
    /\ Cardinality(PushedByLatest) = 1
    /\ \A i \in PushedByLatest :
          IF EqualFollows
          THEN extent[i] = <<began, began + 2>>
               /\ tokens[i].type = TwoCharOperator(Decision)
          ELSE extent[i] = <<began, began + 1>>
               /\ tokens[i].type = OneCharOperator(Decision)

\* C11: on '!', '=', '<' or '>', if '=' is next, exactly one two-character
\* token is pushed and both characters are consumed; otherwise exactly one
\* one-character token is pushed and the next character is left unconsumed.
C11_OneOperatorToken == OperatorScanned => OneOperatorToken

\* C11 for the sources of one-byte characters only.
C11_AsciiOneOperatorToken == (OperatorScanned /\ IsAscii(source)) => OneOperatorToken

\* The latest iteration dispatched on a letter.
LetterScanned == Iterated /\ is_alphabetic(Decision)

\* Where the run of alphanumeric characters that holds the k-th character ends
RECURSIVE AlnumRunEnd(_)
AlnumRunEnd(k) ==
    IF k < Len(source) /\ is_alphanumeric(source[k + 1]) THEN AlnumRunEnd(k + 1)
    ELSE k

ReservedWords ==
    {<<"a", "n", "d">>, <<"c", "l", "a", "s", "s">>, <<"e", "l", "s", "e">>,
     <<"f", "a", "l", "s", "e">>, <<"f", "o", "r">>, <<"f", "u", "n">>,
     <<"i", "f">>, <<"n", "i", "l">>, <<"o", "r">>, <<"p", "r", "i", "n", "t">>,
     <<"r", "e", "t", "u", "r", "n">>, <<"s", "u", "p", "e", "r">>,
     <<"t", "h", "i", "s">>, <<"t", "r", "u", "e">>, <<"v", "a", "r">>,
     <<"w", "h", "i", "l", "e">>}

\* The keyword kind of a reserved word: its first letter in upper case.
KeywordKind(w) ==
    CASE w = <<"a", "n", "d">> -> "And" [] w = <<"c", "l", "a", "s", "s">> -> "Class"
      [] w = <<"e", "l", "s", "e">> -> "Else" [] w = <<"f", "a", "l", "s", "e">> -> "False"
      [] w = <<"f", "o", "r">> -> "For" [] w = <<"f", "u", "n">> -> "Fun"
      [] w = <<"i", "f">> -> "If" [] w = <<"n", "i", "l">> -> "Nil"
      [] w = <<"o", "r">> -> "Or" [] w = <<"p", "r", "i", "n", "t">> -> "Print"
      [] w = <<"r", "e", "t", "u", "r", "n">> -> "Return"
      [] w = <<"s", "u", "p", "e", "r">> -> "Super" [] w = <<"t", "h", "i", "s">> -> "This"
      [] w = <<"t", "r", "u", "e">> -> "True" [] w = <<"v", "a", "r">> -> "Var"
      [] w = <<"w", "h", "i", "l", "e">> -> "While"

OneWordToken ==
    LET word == SubSeq(source, began + 1, AlnumRunEnd(began + 1)) IN
    /\ status # "panicked"
    /\ Cardinality(PushedByLatest) = 1
    /\ \A i \in PushedByLatest :
          /\ extent[i] = <<began, AlnumRunEnd(began + 1)>>
          /\ tokens[i].source = word
          /\ tokens[i].literal = Empty
          /\ tokens[i].type =
                IF word \in ReservedWords THEN KeywordKind(word) ELSE "Identifier"

\* C12: a maximal run of alphanumeric characters that starts with a letter
\* yields exactly one token, with no literal, whose kind is the keyword kind
\* of a reserved word if the whole run is that word, and Identifier otherwise.
C12_OneWordToken == LetterScanned => OneWordToken

\* C12 for the sources of one-byte characters only.
C12_AsciiOneWordToken == (LetterScanned /\ IsAscii(source)) => OneWordToken

\* The latest iteration dispatched on a '/' that a '/' follows.
SlashFollows == began + 2 <= Len(source) /\ source[began + 2] = "/"
CommentScanned == Iterated /\ Decision = "/" /\ SlashFollows

\* How many characters precede the first newline after the first k (all of
\* the source when there is none)
LineEnd(k) ==
    IF PlacesAfter(k, "\n") = {} THEN Len(source)
    ELSE (CHOOSE n \in PlacesAfter(k, "\n") :
             \A m \in PlacesAfter(k, "\n") : n <= m) - 1

\* C13: after "//" the characters up to, and not including, the next newline
\* (or to the end of the input) are consumed with no token; the newline is
\* left to the main loop, which counts it once and pushes nothing; a '/' that
\* no '/' follows yields exactly one Slash token of one character.
C13_CommentAndSlash ==
    /\ CommentScanned =>
          /\ status # "panicked"
          /\ PushedByLatest = {}
          /\ Consumed(self) = LineEnd(began + 2)
          /\ line = LineAt(began)
    /\ (Iterated /\ Decision = "\n") =>
          /\ status # "panicked"
          /\ PushedByLatest = {}
          /\ Consumed(self) = began + 1
          /\ line = LineAt(began) + 1
    /\ (Iterated /\ Decision = "/" /\ ~SlashFollows) =>
          /\ status # "panicked"
          /\ Cardinality(PushedByLatest) = 1
          /\ \A i \in PushedByLatest :
                extent[i] = <<began, began + 1>> /\ tokens[i].type = "Slash"

\* C13 for the sources of one-byte characters only.
C13_AsciiCommentAndSlash == IsAscii(source) => C13_CommentAndSlash

\* C13 for the comment alone.
C13_CommentSkipped ==
    CommentScanned =>
        /\ status # "panicked"
        /\ PushedByLatest = {}
        /\ Consumed(self) = LineEnd(began + 2)
        /\ line = LineAt(began)

\* C14: the token list is in source order and its lines never decrease: a
\* token pushed later has no smaller line and begins no earlier than where any
\* token pushed before it ends.
C14_TokensOrdered ==
    \A i, j \in 1..Len(tokens) :
        i < j => /\ tokens[i].line <= tokens[j].line
                 /\ extent[i][1] <= extent[j][1]
                 /\ extent[i][2] <= extent[j][1]

\* Two tokens scanned from different lines
C14_Witness ==
    /\ Len(tokens) >= 2
    /\ tokens[2].type # "Eof"
    /\ tokens[1].line < tokens[2].line
    /\ extent[1][2] < extent[2][1]

\* How many bytes the first k characters of the source take
ByteOffset(k) == Len(Bytes(SubSeq(source, 1, k)))

\* C15: start and current are byte offsets into the source, on character
\* boundaries, with 0 <= start <= current <= the length in bytes, and current
\* is the byte offset of the next unconsumed character.
C15_ByteOffsets ==
    /\ 0 <= start /\ start <= current /\ current <= Len(Bytes(source))
    /\ is_char_boundary(source, start)
    /\ is_char_boundary(source, current)
    /\ current = ByteOffset(Consumed(self))

\* What the code keeps of C15: the offsets count characters.
C15_CharOffsets ==
    /\ 0 <= start /\ start <= current /\ current <= Len(source)
    /\ current = Consumed(self)
    /\ start \in {0, began}

\* C15 for the sources of one-byte characters only.
C15_AsciiByteOffsets == IsAscii(source) => C15_ByteOffsets

\* The latest iteration dispatched to handle_number.
NumberModeEntered == Iterated /\ IsOther(Decision) /\ is_numeric(Decision)

\* C16: number mode is entered only on a decimal digit and extends only over
\* decimal digits, and the numeric parse never fails.
C16_ParseNeverFails ==
    /\ panic # ParseFloatError
    /\ NumberModeEntered =>
          \A k \in (began + 1)..Consumed(self) : source[k] \in AsciiDigits

\* C16 for the sources of one-byte characters only.
C16_AsciiParseNeverFails == IsAscii(source) => C16_ParseNeverFails

\* C17: the line counter is 1 plus the number of newlines consumed so far.
C17_LineCountsNewlines == line = LineAt(Consumed(self))

\* A string literal that holds a newline was scanned to its closing quote.
C17_Witness ==
    /\ Iterated /\ Decision = "\"" /\ status = "scanning"
    /\ line > LineAt(began)

\* The parse of a number's text failed.
C16_ParseFailed == panic = ParseFloatError

\* The scanner as scan_token has it when it calls match: past the decision
\* character.
AtMatchCall == advance([self EXCEPT !.start = self.current])

\* match is about to be called: the next character is an operator's or '/'.
MatchCalled ==
    status = "scanning" /\ ~is_at_end(self) /\ peek(self) \in OperatorChars \cup {"/"}

\* C18: match(expected) returns true and consumes exactly one character if
\* input remains and the next character is the expected one; otherwise it
\* returns false and changes nothing. peek is a value of the state and changes
\* nothing.
C18_MatchConsumesOnEqual ==
    MatchCalled =>
        \A expected \in Alphabet :
            LET a == AtMatchCall
                m == match(a, expected)
                equal == a.chars # <<>> /\ Head(a.chars) = expected
            IN /\ m.is_match = equal
               /\ equal    => m.s = [a EXCEPT !.chars = Tail(@), !.current = @ + 1]
               /\ ~ equal  => m.s = a
               /\ peek(a) = (IF a.chars = <<>> THEN None ELSE Head(a.chars))

\* match has taken the '=' after an operator's character, and is about to be
\* called with nothing left after the next one.
C18_Witness ==
    /\ Iterated /\ Decision \in OperatorChars /\ Consumed(self) = began + 2
    /\ MatchCalled
    /\ AtMatchCall.chars = <<>>

\* The run as one call of scan_tokens ends: in a panic, or returned with the
\* source consumed and Eof pushed.
C19_RunEnds ==
    LET r == scan_tokens(new(source))
    IN r.panic # None \/ /\ r.chars = <<>>
                         /\ r.current = Len(source)
                         /\ r.tokens[Len(r.tokens)].type = "Eof"

\* C19: the scan is one forward pass that always finishes: every iteration of
\* the loop consumes at least one character of the finitely many, current
\* never decreases, nothing consumed comes back, and the run returns only with
\* the source consumed.
C19_ForwardPass ==
    [][ /\ current' >= current
        /\ Consumed(self)' >= Consumed(self)
        /\ status' # "returned" => Consumed(self)' > Consumed(self)
        /\ status' = "returned" => Consumed(self) = Len(source) ]_vars

\* A run of at least two iterations has returned with the source consumed.
C19_Witness ==
    /\ status = "returned"
    /\ began >= 2
    /\ Consumed(self) = Len(source)
    /\ current = Len(source)

\* The latest iteration scanned a string literal to its closing quote.
StringClosed == Iterated /\ Decision = "\"" /\ panic # UnterminatedString

\* C20: advance is never called at the end of the input where its result is
\* required: scan_token's first advance is made only when input remains, and
\* the advance over the closing quote only when the next character is '"'.
C20_AdvanceHasInput ==
    /\ panic # UnwrapNone
    /\ StringClosed => /\ Consumed(self) >= began + 2
                       /\ source[Consumed(self)] = "\""

\* A string closed by the last character of the source, and the run returned.
C20_Witness ==
    /\ StringClosed
    /\ panic = None
    /\ status = "returned"
    /\ Len(tokens) = 2

=============================================================================
